---- MODULE Spec2Model ----
(***************************************************************************)
(* Word search generator (app/word_search.py): the WordSearchGenerator     *)
(* class (constructor, generate_puzzle, _place_word, _fill_empty_cells)    *)
(* and the guard of the command-line entry point main().                   *)
(*                                                                         *)
(* A character is a one-character string, a word is a sequence of          *)
(* characters, a grid is a function from <<row, col>> to a character and   *)
(* a Python dict is a sequence of <<key, value>> pairs in insertion order. *)
(* One step of the model is one iteration of the while loop of             *)
(* _place_word, one cell of _fill_empty_cells, or the straight-line code   *)
(* between two random draws.                                               *)
(***************************************************************************)
EXTENDS Integers, Sequences, FiniteSets, TLC

VARIABLES
    args,            \* arguments of the pending constructor call, NoArgs once it ran
    word_list,       \* self.word_list
    grid_size,       \* self.grid_size
    max_attempts,    \* self.max_attempts
    grid,            \* self.grid
    placed_words,    \* self.placed_words
    word_locations,  \* self.word_locations
    words,           \* generate_puzzle: the sorted list the for loop walks
    wi,              \* generate_puzzle: 1-based index of the word being placed
    attempts,        \* _place_word: the attempts counter
    fill_row,        \* _fill_empty_cells: loop variable row
    fill_col,        \* _fill_empty_cells: loop variable col
    warnings,        \* words printed by the "Could not place" warning
    outcome,         \* _place_word: branch taken by the last iteration of the while loop
    rng_calls,       \* calls of the random module made by the last step, in order
    file_lines,      \* read_words_from_file: the lines of the input file
    title,           \* read_words_from_file: local title
    description,     \* read_words_from_file: local description
    file_words,      \* read_words_from_file: local words
    pc               \* position of the run

vars == <<args, word_list, grid_size, max_attempts, grid, placed_words,
          word_locations, words, wi, attempts, fill_row, fill_col,
          warnings, outcome, rng_calls, file_lines, title, description,
          file_words, pc>>

\* the locals of read_words_from_file
filevars == <<file_lines, title, description, file_words>>

(***************************************************************************)
(* Bounds of the model.                                                    *)
(***************************************************************************)
MaxGridSize == 2
MaxAttempts == 2
MaxWords == 2
MaxLetters == 2
MaxLines == 3

(***************************************************************************)
(* Program constants.                                                      *)
(***************************************************************************)
BLANK == " "

\* def __init__(self, word_list, grid_size=15, max_attempts=100)
DefaultMaxAttempts == 100

ascii_uppercase ==
    <<"A", "B", "C", "D", "E", "F", "G", "H", "I", "J", "K", "L", "M",
      "N", "O", "P", "Q", "R", "S", "T", "U", "V", "W", "X", "Y", "Z">>

directions ==
    << <<0, 1>>, <<1, 0>>, <<1, 1>>, <<1, -1>>,
       <<0, -1>>, <<-1, 0>>, <<-1, 1>>, <<-1, -1>> >>

(***************************************************************************)
(* Inputs: the strings a caller may put in the word list, the grid sizes   *)
(* and the attempt budgets.                                                *)
(***************************************************************************)
RawWords ==
    { <<"a", "b">>,      \* lower case
      <<"A", "C">>,      \* shares its first letter with AB
      <<"A", " ">>,      \* trailing blank, kept by the constructor
      <<"1">>,           \* one character, not a letter
      <<" ">>,           \* blank only
      <<>> }             \* empty string

RECURSIVE SeqsUpTo(_, _)
SeqsUpTo(S, n) ==
    IF n = 0 THEN {<<>>}
    ELSE LET shorter == SeqsUpTo(S, n - 1)
         IN  shorter \cup {Append(s, x) : s \in shorter, x \in S}

WordLists == SeqsUpTo(RawWords, MaxWords)
GridSizes == (0 - 1)..MaxGridSize
AttemptBudgets == 0..MaxAttempts

NoArgs == [word_list |-> <<>>, grid_size |-> 0, max_attempts |-> 0]

(***************************************************************************)
(* str.upper, str.strip                                                    *)
(***************************************************************************)
upper_char(ch) ==
    CASE ch = "a" -> "A"
      [] ch = "b" -> "B"
      [] ch = "c" -> "C"
      [] OTHER -> ch

upper(word) == [i \in 1..Len(word) |-> upper_char(word[i])]

isspace(ch) == ch \in {" ", "\t", "\n"}

RECURSIVE lstrip(_)
lstrip(word) ==
    IF word = <<>> THEN <<>>
    ELSE IF isspace(Head(word)) THEN lstrip(Tail(word))
    ELSE word

RECURSIVE rstrip(_)
rstrip(word) ==
    IF word = <<>> THEN <<>>
    ELSE IF isspace(word[Len(word)]) THEN rstrip(SubSeq(word, 1, Len(word) - 1))
    ELSE word

strip(word) == rstrip(lstrip(word))

(***************************************************************************)
(* __init__, line 28: [word.upper() for word in word_list if word.strip()] *)
(***************************************************************************)
RECURSIVE NormalizeWordList(_)
NormalizeWordList(l) ==
    IF l = <<>> THEN <<>>
    ELSE IF strip(Head(l)) # <<>>
         THEN <<upper(Head(l))>> \o NormalizeWordList(Tail(l))
         ELSE NormalizeWordList(Tail(l))

Cells(n) == (0..(n - 1)) \X (0..(n - 1))

BlankGrid(n) == [cell \in Cells(n) |-> BLANK]

(***************************************************************************)
(* sorted(self.word_list, key=len, reverse=True): a stable sort, so words  *)
(* of equal length keep their input order.                                 *)
(***************************************************************************)
LongerFirstUnstable(a, b) == Len(a) >= Len(b)

LongerFirst(a, b) == Len(a) > Len(b)

RECURSIVE InsertByLen(_, _)
InsertByLen(s, w) ==
    IF s = <<>> THEN <<w>>
    ELSE IF LongerFirst(w, Head(s)) THEN <<w>> \o s
    ELSE <<Head(s)>> \o InsertByLen(Tail(s), w)

RECURSIVE sorted(_)
sorted(l) ==
    IF l = <<>> THEN <<>>
    ELSE InsertByLen(sorted(SubSeq(l, 1, Len(l) - 1)), l[Len(l)])

(***************************************************************************)
(* dict: insertion-ordered, assignment to an existing key keeps its place. *)
(***************************************************************************)
DictKeys(d) == {d[i][1] : i \in 1..Len(d)}

DictGet(d, k) == d[CHOOSE i \in 1..Len(d) : d[i][1] = k][2]

DictSet(d, k, v) ==
    IF k \in DictKeys(d)
    THEN [i \in 1..Len(d) |-> IF d[i][1] = k THEN <<k, v>> ELSE d[i]]
    ELSE Append(d, <<k, v>>)

(***************************************************************************)
(* _place_word, one iteration of the while loop, lines 76-103.             *)
(***************************************************************************)
EndCell(word, row, col, direction) ==
    <<row + (Len(word) - 1) * direction[1], col + (Len(word) - 1) * direction[2]>>

\* only the upper bound of the end cell is checked
InBoundsNoLower(n, word, row, col, direction) ==
    LET end == EndCell(word, row, col, direction)
    IN  end[1] < n /\ end[2] < n

InBounds(n, word, row, col, direction) ==
    LET end == EndCell(word, row, col, direction)
    IN  0 <= end[1] /\ end[1] < n /\ 0 <= end[2] /\ end[2] < n

\* the start cell is appended for every letter
PositionsAtStart(word, row, col, direction) ==
    [i \in 1..Len(word) |-> <<row, col>>]

Positions(word, row, col, direction) ==
    [i \in 1..Len(word) |->
        <<row + (i - 1) * direction[1], col + (i - 1) * direction[2]>>]

\* every cell is taken for a compatible one
CompatibleAny(cell, ch) == TRUE

Compatible(cell, ch) == cell = BLANK \/ cell = ch

\* list indexing: a negative index counts from the end of the list
PyIndex(i, n) == IF i < 0 THEN i + n ELSE i

GridCell(pos, n) == <<PyIndex(pos[1], n), PyIndex(pos[2], n)>>

CanPlace(g, n, word, positions) ==
    \A i \in 1..Len(word) : Compatible(g[GridCell(positions[i], n)], word[i])

\* the letters word[1..upto] written one after the other along positions
WriteWord(g, n, word, positions, upto) ==
    [cell \in DOMAIN g |->
        LET hits == {i \in 1..upto : GridCell(positions[i], n) = cell}
        IN  IF hits = {} THEN g[cell]
            ELSE word[CHOOSE i \in hits : \A j \in hits : j <= i]]

\* incremental writes without rollback: letters written up to the conflict
TryPlaceIncremental(g, n, word, row, col, direction) ==
    LET positions == Positions(word, row, col, direction)
        bad == {i \in 1..Len(word) :
                    ~Compatible(g[GridCell(positions[i], n)], word[i])}
        firstBad == CHOOSE i \in bad : \A j \in bad : i <= j
    IN  IF ~InBounds(n, word, row, col, direction)
        THEN [outcome |-> "out_of_bounds", grid |-> g, positions |-> <<>>]
        ELSE IF bad = {}
        THEN [outcome |-> "placed",
              grid |-> WriteWord(g, n, word, positions, Len(word)),
              positions |-> positions]
        ELSE [outcome |-> "conflict",
              grid |-> WriteWord(g, n, word, positions, firstBad - 1),
              positions |-> <<>>]

TryPlace(g, n, word, row, col, direction) ==
    LET positions == Positions(word, row, col, direction)
    IN  IF ~InBounds(n, word, row, col, direction)
        THEN [outcome |-> "out_of_bounds", grid |-> g, positions |-> <<>>]
        ELSE IF CanPlace(g, n, word, positions)
        THEN [outcome |-> "placed",
              grid |-> WriteWord(g, n, word, positions, Len(word)),
              positions |-> positions]
        ELSE [outcome |-> "conflict", grid |-> g, positions |-> <<>>]

\* while attempts < self.max_attempts
BudgetLeftInclusive(a, budget) == a <= budget

BudgetLeft(a, budget) == a < budget

(***************************************************************************)
(* Initial state: a caller is about to construct a generator.              *)
(***************************************************************************)
Init ==
    /\ args \in [word_list : WordLists, grid_size : GridSizes,
                 max_attempts : AttemptBudgets]
    /\ word_list = <<>>
    /\ grid_size = 0
    /\ max_attempts = 0
    /\ grid = <<>>
    /\ placed_words = <<>>
    /\ word_locations = <<>>
    /\ words = <<>>
    /\ wi = 0
    /\ attempts = 0
    /\ fill_row = 0
    /\ fill_col = 0
    /\ warnings = <<>>
    /\ outcome = "none"
    /\ rng_calls = <<>>
    /\ file_lines = <<>>
    /\ title = <<>>
    /\ description = <<>>
    /\ file_words = <<>>
    /\ pc = "new"

(***************************************************************************)
(* WordSearchGenerator.__init__                                            *)
(***************************************************************************)
Construct ==
    /\ word_list' = NormalizeWordList(args.word_list)
    /\ grid_size' = args.grid_size
    /\ max_attempts' = args.max_attempts
    /\ grid' = BlankGrid(args.grid_size)
    /\ placed_words' = <<>>
    /\ word_locations' = <<>>
    /\ args' = NoArgs
    /\ pc' = "constructed"
    /\ rng_calls' = <<>>
    /\ UNCHANGED <<words, wi, attempts, fill_row, fill_col, warnings, outcome>>
    /\ UNCHANGED filevars

WordSearchGenerator ==
    /\ pc = "new"
    /\ Construct

(***************************************************************************)
(* main(), lines 336-349: the words come from read_words_from_file, whose  *)
(* lines are stripped and non-empty; an empty list is reported and main    *)
(* returns before a generator is constructed.                              *)
(***************************************************************************)
FromFile(l) == \A i \in 1..Len(l) : l[i] # <<>> /\ strip(l[i]) = l[i]

main ==
    /\ pc = "new"
    /\ FromFile(args.word_list)
    /\ IF args.word_list = <<>>
       THEN /\ pc' = "rejected"
            /\ args' = NoArgs
            /\ rng_calls' = <<>>
            /\ UNCHANGED <<word_list, grid_size, max_attempts, grid,
                           placed_words, word_locations, words, wi, attempts,
                           fill_row, fill_col, warnings, outcome>>
            /\ UNCHANGED filevars
       ELSE Construct

(***************************************************************************)
(* generate_puzzle                                                         *)
(***************************************************************************)
\* top of "for word in words": enter _place_word for word i, or leave the
\* loop and enter _fill_empty_cells
ForWord(ws, i) ==
    /\ wi' = i
    /\ attempts' = 0
    /\ fill_row' = 0
    /\ fill_col' = 0
    /\ pc' = IF i <= Len(ws) THEN "place" ELSE "fill"

generate_puzzle ==
    /\ pc = "constructed"
    /\ words' = sorted(word_list)
    /\ ForWord(sorted(word_list), 1)
    /\ rng_calls' = <<>>
    /\ UNCHANGED <<args, word_list, grid_size, max_attempts, grid,
                   placed_words, word_locations, warnings, outcome>>
    /\ UNCHANGED filevars

\* a failed iteration leaves the counter as it was
CountFailureNever(a) == a

\* line 105: attempts += 1
CountFailure(a) == a + 1

\* one iteration of the while loop with the draws row, col, direction
PlaceAttempt(row, col, d) ==
    /\ pc = "place"
    /\ BudgetLeft(attempts, max_attempts)
    /\ grid_size >= 1
    /\ LET word == words[wi]
           r == TryPlace(grid, grid_size, word, row, col, directions[d])
       IN  /\ grid' = r.grid
           /\ outcome' = r.outcome
           /\ IF r.outcome = "placed"
              THEN /\ word_locations' = DictSet(word_locations, word, r.positions)
                   /\ placed_words' = Append(placed_words, word)
                   /\ ForWord(words, wi + 1)
              ELSE /\ attempts' = CountFailure(attempts)
                   /\ UNCHANGED <<word_locations, placed_words, wi, fill_row,
                                  fill_col, pc>>
    /\ rng_calls' = <<"randint", "randint", "choice">>
    /\ UNCHANGED <<args, word_list, grid_size, max_attempts, words, warnings>>
    /\ UNCHANGED filevars

\* random.randint(0, self.grid_size - 1) on an empty range raises ValueError
PlaceAttemptRaises ==
    /\ pc = "place"
    /\ BudgetLeft(attempts, max_attempts)
    /\ grid_size < 1
    /\ pc' = "raised"
    /\ rng_calls' = <<"randint">>
    /\ UNCHANGED <<args, word_list, grid_size, max_attempts, grid,
                   placed_words, word_locations, words, wi, attempts,
                   fill_row, fill_col, warnings, outcome>>
    /\ UNCHANGED filevars

\* the word is appended to placed_words whatever _place_word returned
DropWordStillListed ==
    /\ pc = "place"
    /\ ~BudgetLeft(attempts, max_attempts)
    /\ warnings' = Append(warnings, words[wi])
    /\ placed_words' = Append(placed_words, words[wi])
    /\ outcome' = "none"
    /\ ForWord(words, wi + 1)
    /\ rng_calls' = <<>>
    /\ UNCHANGED <<args, word_list, grid_size, max_attempts, grid,
                   word_locations, words>>
    /\ UNCHANGED filevars

\* the while loop ends, _place_word returns False, the warning is printed
DropWord ==
    /\ pc = "place"
    /\ ~BudgetLeft(attempts, max_attempts)
    /\ warnings' = Append(warnings, words[wi])
    /\ outcome' = "none"
    /\ ForWord(words, wi + 1)
    /\ rng_calls' = <<>>
    /\ UNCHANGED <<args, word_list, grid_size, max_attempts, grid,
                   placed_words, word_locations, words>>
    /\ UNCHANGED filevars

(***************************************************************************)
(* _fill_empty_cells, row-major                                            *)
(***************************************************************************)
\* the last row is never visited
RowsLeftShort(row, n) == row < n - 1

\* for row in range(self.grid_size)
RowsLeft(row, n) == row < n

\* random.choice is called before the cell is tested
FillDrawsAlways(cell) == <<"choice">>

\* lines 113-114: random.choice is called for a blank cell only
FillDraws(cell) == IF cell = BLANK THEN <<"choice">> ELSE <<>>

NextCell ==
    IF fill_col + 1 < grid_size
    THEN fill_row' = fill_row /\ fill_col' = fill_col + 1
    ELSE fill_row' = fill_row + 1 /\ fill_col' = 0

\* the cell is overwritten without the test of line 113
FillBlankAnyCell(letter) ==
    /\ pc = "fill"
    /\ RowsLeft(fill_row, grid_size)
    /\ grid' = [grid EXCEPT ![<<fill_row, fill_col>>] = ascii_uppercase[letter]]
    /\ NextCell
    /\ rng_calls' = FillDraws(grid[<<fill_row, fill_col>>])
    /\ UNCHANGED <<args, word_list, grid_size, max_attempts, placed_words,
                   word_locations, words, wi, attempts, warnings, outcome,
                   pc>>
    /\ UNCHANGED filevars

FillBlank(letter) ==
    /\ pc = "fill"
    /\ RowsLeft(fill_row, grid_size)
    /\ grid[<<fill_row, fill_col>>] = BLANK
    /\ grid' = [grid EXCEPT ![<<fill_row, fill_col>>] = ascii_uppercase[letter]]
    /\ NextCell
    /\ rng_calls' = FillDraws(grid[<<fill_row, fill_col>>])
    /\ UNCHANGED <<args, word_list, grid_size, max_attempts, placed_words,
                   word_locations, words, wi, attempts, warnings, outcome,
                   pc>>
    /\ UNCHANGED filevars

FillSkip ==
    /\ pc = "fill"
    /\ RowsLeft(fill_row, grid_size)
    /\ grid[<<fill_row, fill_col>>] # BLANK
    /\ NextCell
    /\ rng_calls' = FillDraws(grid[<<fill_row, fill_col>>])
    /\ UNCHANGED <<args, word_list, grid_size, max_attempts, grid,
                   placed_words, word_locations, words, wi, attempts,
                   warnings, outcome, pc>>
    /\ UNCHANGED filevars

\* return self.grid, self.placed_words
Return ==
    /\ pc = "fill"
    /\ ~RowsLeft(fill_row, grid_size)
    /\ pc' = "done"
    /\ rng_calls' = <<>>
    /\ UNCHANGED <<args, word_list, grid_size, max_attempts, grid,
                   placed_words, word_locations, words, wi, attempts,
                   fill_row, fill_col, warnings, outcome>>
    /\ UNCHANGED filevars

(***************************************************************************)
(* save_to_pdf, as main calls it after generate_puzzle: the unsolved view  *)
(* first, then the solved view.  The document is not modelled; the call    *)
(* either builds it or raises.                                             *)
(***************************************************************************)
\* line 219: max(len(word) for word in sorted_words) raises ValueError on
\* an empty sequence
MaxWordLenDefined(pw) == pw # <<>>

save_to_pdf(solved) ==
    /\ pc = IF solved THEN "saved" ELSE "done"
    /\ pc' = IF ~MaxWordLenDefined(placed_words) THEN "pdf_raised"
             ELSE IF solved THEN "solved_saved" ELSE "saved"
    /\ rng_calls' = <<>>
    /\ UNCHANGED <<args, word_list, grid_size, max_attempts, grid,
                   placed_words, word_locations, words, wi, attempts,
                   fill_row, fill_col, warnings, outcome>>
    /\ UNCHANGED filevars

Next ==
    \/ WordSearchGenerator
    \/ main
    \/ generate_puzzle
    \/ \E row \in 0..(grid_size - 1), col \in 0..(grid_size - 1),
          d \in 1..Len(directions) : PlaceAttempt(row, col, d)
    \/ PlaceAttemptRaises
    \/ DropWord
    \/ \E letter \in 1..MaxLetters : FillBlank(letter)
    \/ FillSkip
    \/ Return
    \/ \E solved \in BOOLEAN : save_to_pdf(solved)

Spec == Init /\ [][Next]_vars

(***************************************************************************)
(* read_words_from_file.  A file is the sequence of its lines, each a      *)
(* sequence of characters without the line end.                            *)
(***************************************************************************)
TitlePrefix == <<"T", "i", "t", "l", "e", ":">>
DescPrefix == <<"D", "e", "s", "c", ":">>

RawLines ==
    { TitlePrefix \o <<" ", "T">>,     \* Title: T
      DescPrefix \o <<" ", "D">>,      \* Desc: D
      <<"a", "b">>,                    \* a word
      <<" ", "A", "C">>,               \* a word after a blank
      <<" ">>,                         \* a blank line
      <<>> }                           \* an empty line

Files == SeqsUpTo(RawLines, MaxLines)

\* str.startswith
startswith(s, prefix) ==
    Len(s) >= Len(prefix) /\ SubSeq(s, 1, Len(prefix)) = prefix

\* str.replace(old, ""): every occurrence of old, left to right, is removed
RECURSIVE remove(_, _)
remove(s, old) ==
    IF Len(s) < Len(old) \/ old = <<>> THEN s
    ELSE IF startswith(s, old)
    THEN remove(SubSeq(s, Len(old) + 1, Len(s)), old)
    ELSE <<s[1]>> \o remove(Tail(s), old)

IsNonEmpty(l) == l # <<>>

\* line 292: lines = [line.strip() for line in file if line.strip()]
StrippedLines(file) ==
    SelectSeq([i \in 1..Len(file) |-> strip(file[i])], IsNonEmpty)

\* line 295: len(lines) >= 2 and lines[0].startswith("Title:")
HeaderTest(lines) == Len(lines) >= 2 /\ startswith(lines[1], TitlePrefix)

\* lines 299-301: start_idx, as an index of a sequence that starts at 1
StartIdx(lines) == IF Len(lines) > 2 /\ lines[3] = <<>> THEN 4 ELSE 3

InitRead ==
    /\ file_lines \in Files
    /\ args = NoArgs
    /\ word_list = <<>>
    /\ grid_size = 0
    /\ max_attempts = 0
    /\ grid = <<>>
    /\ placed_words = <<>>
    /\ word_locations = <<>>
    /\ words = <<>>
    /\ wi = 0
    /\ attempts = 0
    /\ fill_row = 0
    /\ fill_col = 0
    /\ warnings = <<>>
    /\ outcome = "none"
    /\ rng_calls = <<>>
    /\ title = <<>>
    /\ description = <<>>
    /\ file_words = <<>>
    /\ pc = "file"

read_words_from_file ==
    /\ pc = "file"
    /\ LET lines == StrippedLines(file_lines)
       IN  IF HeaderTest(lines)
           THEN /\ title' = strip(remove(lines[1], TitlePrefix))
                /\ description' = strip(remove(lines[2], DescPrefix))
                /\ file_words' =
                      SelectSeq(SubSeq(lines, StartIdx(lines), Len(lines)),
                                LAMBDA l : strip(l) # <<>>)
           ELSE /\ file_words' = lines
                /\ UNCHANGED <<title, description>>
    /\ pc' = "read"
    /\ UNCHANGED <<args, word_list, grid_size, max_attempts, grid,
                   placed_words, word_locations, words, wi, attempts,
                   fill_row, fill_col, warnings, outcome, rng_calls,
                   file_lines>>

NextRead == read_words_from_file

SpecRead == InitRead /\ [][NextRead]_vars

(***************************************************************************)
(* The scenario WordSearchGenerator(["CAT", "DOG"], grid_size=3) with the  *)
(* default attempt budget, under every sequence of random draws.           *)
(***************************************************************************)
CAT == <<"C", "A", "T">>
DOG == <<"D", "O", "G">>

InitCatDog ==
    /\ args = [word_list |-> <<CAT, DOG>>, grid_size |-> 3,
               max_attempts |-> DefaultMaxAttempts]
    /\ word_list = <<>>
    /\ grid_size = 0
    /\ max_attempts = 0
    /\ grid = <<>>
    /\ placed_words = <<>>
    /\ word_locations = <<>>
    /\ words = <<>>
    /\ wi = 0
    /\ attempts = 0
    /\ fill_row = 0
    /\ fill_col = 0
    /\ warnings = <<>>
    /\ outcome = "none"
    /\ rng_calls = <<>>
    /\ file_lines = <<>>
    /\ title = <<>>
    /\ description = <<>>
    /\ file_words = <<>>
    /\ pc = "new"

NextCatDog ==
    \/ WordSearchGenerator
    \/ generate_puzzle
    \/ \E row \in 0..(grid_size - 1), col \in 0..(grid_size - 1),
          d \in 1..Len(directions) : PlaceAttempt(row, col, d)
    \/ DropWord
    \/ \E letter \in 1..MaxLetters : FillBlank(letter)
    \/ FillSkip
    \/ Return

SpecCatDog == InitCatDog /\ [][NextCatDog]_vars

TypeOK ==
    /\ pc \in {"new", "rejected", "constructed", "place", "fill", "done",
              "raised", "file", "read", "saved", "solved_saved",
              "pdf_raised"}
    /\ attempts \in Nat
    /\ outcome \in {"none", "placed", "out_of_bounds", "conflict"}
    /\ DOMAIN grid = Cells(grid_size)

(***************************************************************************)
(* Helpers of the properties.                                              *)
(***************************************************************************)
Letters == {ascii_uppercase[i] : i \in 1..Len(ascii_uppercase)}

\* the grid size and the budget of the run, as passed or as stored
N == IF pc = "new" THEN args.grid_size ELSE grid_size

Started == pc \in {"place", "fill", "done", "raised"}

HasBlank(word) == \E i \in 1..Len(word) : word[i] = BLANK

Count(s, x) == Cardinality({i \in 1..Len(s) : s[i] = x})

\* the characters of the grid read along a placement
ReadAlong(positions) == [i \in 1..Len(positions) |-> grid[positions[i]]]

(***************************************************************************)
(* C1: after generate_puzzle returns, reading the final grid along the     *)
(* recorded Placement of every placed word yields exactly that word.       *)
(***************************************************************************)
C1_RoundTrip ==
    pc = "done" =>
        \A e \in 1..Len(word_locations) :
            ReadAlong(word_locations[e][2]) = word_locations[e][1]

(***************************************************************************)
(* C2 as stated: after generate_puzzle returns, every cell holds one of    *)
(* the 26 uppercase letters A..Z.                                          *)
(***************************************************************************)
C2_AllCellsLetters ==
    pc = "done" => \A cell \in Cells(grid_size) : grid[cell] \in Letters

(***************************************************************************)
(* C2 as amended: after generate_puzzle returns, no cell holds the blank   *)
(* sentinel; every cell holds one of the 26 uppercase letters or a         *)
(* non-blank character of a placed word.                                   *)
(***************************************************************************)
C2_NoBlankCell ==
    pc = "done" =>
        /\ DOMAIN grid = Cells(grid_size)
        /\ \A cell \in Cells(grid_size) :
            /\ grid[cell] # BLANK
            /\ \/ grid[cell] \in Letters
               \/ \E p \in 1..Len(placed_words) :
                     \E i \in 1..Len(placed_words[p]) :
                        placed_words[p][i] = grid[cell]

C2_Witness ==
    /\ pc = "done"
    /\ grid_size = MaxGridSize
    /\ placed_words # <<>>
    /\ warnings # <<>>
    /\ \E cell \in Cells(grid_size) : grid[cell] \notin Letters
    /\ \E cell \in Cells(grid_size) :
          \A e \in 1..Len(word_locations) :
             \A i \in 1..Len(word_locations[e][2]) :
                word_locations[e][2][i] # cell

(***************************************************************************)
(* C3: a word list with zero non-empty words is rejected; no grid is       *)
(* allocated, filled or returned for it.                                   *)
(***************************************************************************)
C3_EmptyWordListRejected ==
    (pc # "new" /\ grid_size >= 1 /\ word_list = <<>>) => pc = "rejected"

(***************************************************************************)
(* C4: a grid size <= 0 is rejected before the grid is allocated; no       *)
(* state with a grid, a placement attempt or a fill is reached.            *)
(***************************************************************************)
C4_InvalidGridSizeRejected ==
    N <= 0 => pc \in {"new", "rejected"}

FailedAttempt ==
    /\ pc = "place"
    /\ pc' = "place"
    /\ wi' = wi
    /\ outcome' \in {"out_of_bounds", "conflict"}

C6_FailedAttemptChangesNothing ==
    [][FailedAttempt =>
          /\ grid' = grid
          /\ word_locations' = word_locations
          /\ placed_words' = placed_words
          /\ words' = words
          /\ warnings' = warnings]_vars

C6_Witness ==
    /\ pc = "place"
    /\ outcome = "conflict"
    /\ attempts >= 1
    /\ attempts < max_attempts
    /\ placed_words # <<>>

(***************************************************************************)
(* C7: for any two placed words whose Placements share a cell, the cell    *)
(* holds the character both words have at their index on that cell, at     *)
(* every state during placement and in the final grid.                     *)
(***************************************************************************)
C7_SharedCellConsistent ==
    Started =>
        \A e1, e2 \in 1..Len(word_locations) :
            e1 # e2 =>
                LET w1 == word_locations[e1][1]
                    p1 == word_locations[e1][2]
                    w2 == word_locations[e2][1]
                    p2 == word_locations[e2][2]
                IN  \A i \in 1..Len(p1), j \in 1..Len(p2) :
                        p1[i] = p2[j] =>
                            grid[p1[i]] = w1[i] /\ grid[p1[i]] = w2[j]

(***************************************************************************)
(* C8: with a grid size N >= 1, a word gets at most max_attempts attempts: *)
(* every failed attempt, out of bounds or conflict, adds exactly one to    *)
(* the counter; the word is dropped exactly when max_attempts attempts     *)
(* have failed; the first successful attempt places it and moves on to the *)
(* next word.                                                              *)
(***************************************************************************)
C8_Step ==
    (pc = "place" /\ grid_size >= 1) =>
        /\ attempts \in 0..max_attempts
        /\ wi' \in {wi, wi + 1}
        /\ (placed_words' # placed_words) =>
              /\ attempts < max_attempts
              /\ outcome' = "placed"
              /\ placed_words' = Append(placed_words, words[wi])
              /\ warnings' = warnings
              /\ wi' = wi + 1
              /\ attempts' = 0
        /\ (warnings' # warnings) =>
              /\ attempts = max_attempts
              /\ warnings' = Append(warnings, words[wi])
              /\ placed_words' = placed_words
              /\ wi' = wi + 1
              /\ attempts' = 0
        /\ (placed_words' = placed_words /\ warnings' = warnings) =>
              /\ attempts < max_attempts
              /\ outcome' \in {"out_of_bounds", "conflict"}
              /\ attempts' = attempts + 1
              /\ wi' = wi
              /\ pc' = "place"

C8_AttemptBudget == [][C8_Step]_vars

C8_Witness ==
    /\ pc = "place"
    /\ grid_size >= 1
    /\ max_attempts = MaxAttempts
    /\ attempts = max_attempts
    /\ outcome = "conflict"

(***************************************************************************)
(* C9: the words are attempted in order of descending length, words of     *)
(* equal length in their input order; no word is attempted before a        *)
(* strictly longer one.                                                    *)
(***************************************************************************)
OfLength(s, n) == SelectSeq(s, LAMBDA w : Len(w) = n)

C9_LongestFirstStable ==
    Started =>
        /\ Len(words) = Len(word_list)
        /\ \A i \in 1..(Len(words) - 1) : Len(words[i]) >= Len(words[i + 1])
        /\ \A k \in 1..Len(word_list) :
              OfLength(words, Len(word_list[k]))
                  = OfLength(word_list, Len(word_list[k]))
        /\ pc = "place" => wi \in 1..Len(words)
        /\ \A k \in 1..Len(words) :
              Count(placed_words, words[k]) + Count(warnings, words[k])
                  = Count(SubSeq(words, 1, wi - 1), words[k])

C9_Witness ==
    /\ pc = "place"
    /\ wi = 2
    /\ attempts >= 1
    /\ words # word_list
    /\ Len(words[1]) > Len(words[2])

(***************************************************************************)
(* C11: every recorded Placement of a word w is the straight path          *)
(* start + i*d, i = 0..len(w)-1, for one start cell and one of the eight   *)
(* directions: len(w) coordinates, the same step between consecutive       *)
(* coordinates, every coordinate inside the grid.                          *)
(***************************************************************************)
Elems(s) == {s[i] : i \in 1..Len(s)}

StraightPath(p, d) ==
    \A i \in 1..(Len(p) - 1) :
        p[i + 1][1] - p[i][1] = d[1] /\ p[i + 1][2] - p[i][2] = d[2]

C12_DroppedNeverPlaced ==
    /\ Elems(placed_words) \subseteq Elems(word_list)
    /\ DictKeys(word_locations) \subseteq Elems(word_list)
    /\ \A i \in 1..Len(warnings) :
          /\ warnings[i] \notin Elems(placed_words)
          /\ warnings[i] \notin DictKeys(word_locations)

(***************************************************************************)
(* C12 as amended: every placed word is a word of the normalized input     *)
(* list, unchanged, with a Placement of its own length; the keys of the    *)
(* placement map are the words of the placed-word list; every occurrence   *)
(* of a word in the input is placed or dropped at most once, so a word     *)
(* whose occurrences were all dropped is in neither.                       *)
(***************************************************************************)
C12_PlacedFromInput ==
    /\ Elems(placed_words) \subseteq Elems(word_list)
    /\ DictKeys(word_locations) = Elems(placed_words)
    /\ \A e \in 1..Len(word_locations) :
          Len(word_locations[e][2]) = Len(word_locations[e][1])
    /\ \A k \in 1..Len(word_list) :
          LET w == word_list[k]
          IN  /\ Count(placed_words, w) + Count(warnings, w)
                    <= Count(word_list, w)
              /\ pc \in {"fill", "done"} =>
                    Count(placed_words, w) + Count(warnings, w)
                        = Count(word_list, w)
              /\ Count(warnings, w) = Count(word_list, w) =>
                    /\ w \notin Elems(placed_words)
                    /\ w \notin DictKeys(word_locations)

C12_Witness ==
    /\ pc = "done"
    /\ <<"A", "B">> \in Elems(placed_words)
    /\ <<"A", "B">> \in Elems(warnings)
    /\ Len(word_list) = 2

(***************************************************************************)
(* C13: for a grid size N >= 1 and an attempt budget A >= 1,               *)
(* generate_puzzle terminates.  Rank bounds the steps that are left: every *)
(* step of a running call makes it smaller, a running call can always take *)
(* a step and never raises, a word is attempted at most A times, and every *)
(* word has been placed or dropped when the fill step starts.              *)
(***************************************************************************)
Rank ==
    CASE pc = "constructed" ->
            Len(word_list) * (max_attempts + 1) + grid_size * grid_size + 2
      [] pc = "place" ->
            (Len(words) - wi) * (max_attempts + 1)
                + (max_attempts - attempts + 1) + grid_size * grid_size + 1
      [] pc = "fill" -> (grid_size - fill_row) * grid_size - fill_col + 1
      [] OTHER -> 0

C13_Running ==
    /\ pc \in {"constructed", "place", "fill"}
    /\ grid_size >= 1
    /\ max_attempts >= 1

C13_Terminates ==
    /\ [](C13_Running =>
            /\ ENABLED <<Next>>_vars
            /\ Rank >= 1
            /\ attempts <= max_attempts)
    /\ [](pc \in {"fill", "done"} /\ grid_size >= 1 /\ max_attempts >= 1 =>
            Len(placed_words) + Len(warnings) = Len(word_list))
    /\ [][C13_Running =>
            /\ Rank' < Rank
            /\ pc' # "raised"
            /\ pc' = "done" \/ C13_Running']_vars

C13_Witness ==
    /\ pc = "done"
    /\ grid_size >= 1
    /\ max_attempts >= 1
    /\ Len(warnings) >= 1
    /\ Len(placed_words) >= 1
    /\ warnings[1] = words[1]

(***************************************************************************)
(* C14 as stated: with words = [CAT, DOG] and grid size 3, for every       *)
(* sequence of random draws the returned grid has 9 letters and no blank,  *)
(* and both CAT and DOG are placed with a 3-cell Placement each.           *)
(***************************************************************************)
PlacedWithCells(w, k) ==
    /\ w \in Elems(placed_words)
    /\ w \in DictKeys(word_locations)
    /\ Len(DictGet(word_locations, w)) = k

C14_BothAlwaysPlaced ==
    pc = "done" =>
        /\ \A c \in Cells(grid_size) : grid[c] \in Letters
        /\ PlacedWithCells(CAT, 3)
        /\ PlacedWithCells(DOG, 3)

(***************************************************************************)
(* C14 as amended: with words = [CAT, DOG] and grid size 3, the returned   *)
(* grid has 9 letters and no blank for every sequence of draws; each of    *)
(* the two words is either placed, with a 3-cell Placement along which the *)
(* grid reads the word, or dropped with a warning; the two Placements      *)
(* share no cell; if CAT lies on a diagonal of the grid DOG is dropped.    *)
(***************************************************************************)
OnDiagonal(p) == p[2] = <<1, 1>> /\ p[1][1] # p[3][1] /\ p[1][2] # p[3][2]

PlacedOrDropped(w) ==
    \/ /\ PlacedWithCells(w, 3)
       /\ ReadAlong(DictGet(word_locations, w)) = w
       /\ w \notin Elems(warnings)
    \/ /\ w \in Elems(warnings)
       /\ w \notin Elems(placed_words)
       /\ w \notin DictKeys(word_locations)

C14_PlacedOrDropped ==
    pc = "done" =>
        /\ Cardinality(Cells(grid_size)) = 9
        /\ \A c \in Cells(grid_size) : grid[c] \in Letters
        /\ PlacedOrDropped(CAT)
        /\ PlacedOrDropped(DOG)
        /\ PlacedWithCells(CAT, 3) /\ PlacedWithCells(DOG, 3) =>
              Elems(DictGet(word_locations, CAT))
                  \cap Elems(DictGet(word_locations, DOG)) = {}
        /\ PlacedWithCells(CAT, 3)
              /\ OnDiagonal(DictGet(word_locations, CAT)) =>
                  DOG \in Elems(warnings)

C14_Witness ==
    /\ pc = "done"
    /\ max_attempts = DefaultMaxAttempts
    /\ PlacedWithCells(CAT, 3)
    /\ PlacedWithCells(DOG, 3)
    /\ ReadAlong(DictGet(word_locations, DOG)) = DOG

(***************************************************************************)
(* C15: every word the builder attempts to place is upper case, non-empty  *)
(* and has no whitespace character, so no character of it is the blank     *)
(* sentinel of the grid.                                                   *)
(***************************************************************************)
WellFormed(w) ==
    /\ w # <<>>
    /\ upper(w) = w
    /\ \A j \in 1..Len(w) : ~isspace(w[j]) /\ w[j] # BLANK

C15_WordsWellFormed ==
    /\ pc = "place" /\ grid_size >= 1 /\ BudgetLeft(attempts, max_attempts) =>
           WellFormed(words[wi])
    /\ \A i \in 1..Len(placed_words) : WellFormed(placed_words[i])

(***************************************************************************)
(* C16: during generation a cell that is not blank never changes.  A       *)
(* commit changes only cells that were blank, all of them on the Placement *)
(* it records; a fill step changes the cell under the cursor if and only   *)
(* if it is blank, no other cell, and moves on, so every cell behind the   *)
(* cursor is written and is not visited again.                             *)
(***************************************************************************)
Changed == {c \in Cells(grid_size) : grid'[c] # grid[c]}

\* row-major index of a cell and of the fill cursor
CellIndex(c) == c[1] * grid_size + c[2]

C16_PlaceStep ==
    pc = "place" =>
        /\ \A c \in Changed : grid[c] = BLANK
        /\ IF outcome' = "placed" /\ Len(placed_words') > Len(placed_words)
           THEN Changed \subseteq Elems(DictGet(word_locations', words[wi]))
           ELSE Changed = {}

C16_FillStep ==
    pc = "fill" /\ pc' = "fill" =>
        LET cur == <<fill_row, fill_col>>
        IN  /\ Changed = IF grid[cur] = BLANK THEN {cur} ELSE {}
            /\ CellIndex(<<fill_row', fill_col'>>) = CellIndex(cur) + 1

C16_LettersNeverChange ==
    /\ [](pc = "fill" =>
            \A c \in Cells(grid_size) :
                CellIndex(c) < CellIndex(<<fill_row, fill_col>>) =>
                    grid[c] # BLANK)
    /\ [][/\ C16_PlaceStep
          /\ C16_FillStep
          /\ pc = "fill" /\ pc' = "done" => Changed = {}]_vars

C16_Witness ==
    /\ pc = "done"
    /\ Len(word_locations) = 2
    /\ Elems(word_locations[1][2]) \cap Elems(word_locations[2][2]) # {}
    /\ \E c \in Cells(grid_size) :
          \A e \in 1..Len(word_locations) : c \notin Elems(word_locations[e][2])
    /\ \A w \in Elems(word_list) : ~HasBlank(w)

(***************************************************************************)
(* C17: every placement attempt on a grid of size N >= 1 draws the start   *)
(* cell (row, then column) and then the direction, whether it ends placed, *)
(* out of bounds or in a conflict; a fill step draws one letter if the     *)
(* cell under the cursor is blank and nothing if it is not, and the cursor *)
(* visits the cells in row-major order; no other step draws.               *)
(***************************************************************************)
AttemptDraws == <<"randint", "randint", "choice">>

C17_Step ==
    /\ pc = "place" /\ grid_size >= 1 /\ BudgetLeft(attempts, max_attempts) =>
          /\ rng_calls' = AttemptDraws
          /\ outcome' \in {"placed", "out_of_bounds", "conflict"}
    /\ pc = "place" /\ ~BudgetLeft(attempts, max_attempts) => rng_calls' = <<>>
    /\ pc = "fill" /\ pc' = "fill" =>
          LET cur == <<fill_row, fill_col>>
          IN  /\ grid[cur] = BLANK =>
                    rng_calls' = <<"choice">> /\ grid'[cur] \in Letters
              /\ grid[cur] # BLANK => rng_calls' = <<>> /\ grid' = grid
              /\ <<fill_row', fill_col'>> =
                    IF fill_col = grid_size - 1
                    THEN <<fill_row + 1, 0>>
                    ELSE <<fill_row, fill_col + 1>>
    /\ pc \in {"new", "constructed"} \/ pc' = "done" => rng_calls' = <<>>

C17_DrawOrder == [][C17_Step]_vars

C17_Witness ==
    /\ pc = "fill"
    /\ Len(placed_words) >= 1
    /\ Len(warnings) >= 1
    /\ rng_calls = <<>>
    /\ fill_col = 1
    /\ grid[<<fill_row, 0>>] # BLANK
    /\ grid[<<fill_row, 1>>] = BLANK

(***************************************************************************)
(* C18: read_words_from_file returns every non-blank line as a word, in    *)
(* file order, when the file does not start with a Title: line followed by *)
(* a Desc: line, and the non-blank lines after the two header lines when   *)
(* it does; no non-blank line other than a header line is lost.            *)
(***************************************************************************)
IsHeaderLine(l) == startswith(l, TitlePrefix) \/ startswith(l, DescPrefix)

\* the two-line header: a Title: line followed by a Desc: line
TwoLineHeader(lines) ==
    /\ Len(lines) >= 2
    /\ startswith(lines[1], TitlePrefix)
    /\ startswith(lines[2], DescPrefix)

C18_WordsFromFile ==
    pc = "read" =>
        LET lines == StrippedLines(file_lines)
        IN  /\ file_words = IF TwoLineHeader(lines)
                            THEN SubSeq(lines, 3, Len(lines))
                            ELSE lines
            /\ \A i \in 1..Len(lines) :
                  ~IsHeaderLine(lines[i]) => lines[i] \in Elems(file_words)

(***************************************************************************)
(* C19: after generate_puzzle returns, every entry of the placed-word list *)
(* has a recorded Placement of its own and there are as many recorded      *)
(* Placements as placed words, also when the input repeats a word.         *)
(***************************************************************************)
C19_OnePlacementPerPlacedWord ==
    pc = "done" =>
        /\ Len(word_locations) = Len(placed_words)
        /\ \A i \in 1..Len(placed_words) :
              placed_words[i] \in DictKeys(word_locations)

(***************************************************************************)
(* C20: in the placement phase, up to the start of the fill step, a cell   *)
(* is non-blank exactly when it lies on the recorded Placement of some     *)
(* word of the placement map.                                              *)
(***************************************************************************)
Recorded ==
    UNION {Elems(word_locations[e][2]) : e \in 1..Len(word_locations)}

C20_NonBlankIffRecorded ==
    /\ grid_size >= 1
    /\ \/ pc = "place"
       \/ pc = "fill" /\ fill_row = 0 /\ fill_col = 0
    => \A c \in Cells(grid_size) : grid[c] # BLANK <=> c \in Recorded

(***************************************************************************)
(* C21: after generate_puzzle has returned from a non-empty word list on a *)
(* grid of size N >= 1 with a budget A >= 1, the two save_to_pdf calls of   *)
(* the command-line entry point raise no error, also when every word was   *)
(* dropped and the placed-word list is empty.                              *)
(***************************************************************************)
C21_PdfSequenceCompletes ==
    word_list # <<>> /\ grid_size >= 1 /\ max_attempts >= 1 =>
        pc # "pdf_raised"

====
